---- MODULE Spec2Model ----
(***************************************************************************)
(* AgriVision MCP server (src/src/index.ts): the crop-catalog refresh that *)
(* runs at startup and the diagnose_plant_health tool.                     *)
(*                                                                         *)
(* Strings whose characters matter (crop names, upstream error messages)   *)
(* are sequences of one-character strings.  Image data URIs are sequences  *)
(* of lexical tokens, each standing for a run of characters (TokLen).      *)
(***************************************************************************)
EXTENDS Integers, Sequences, FiniteSets, TLC

VARIABLES
    genAI,            \* TRUE: the Gemini client exists; FALSE: it is null
    ADVISORY_MODE,    \* process.env.ADVISORY_MODE || 'diagnosis_only'
    OUTPUT_FORMAT,    \* process.env.OUTPUT_FORMAT || 'structured'
    SUPPORTED_CROPS,  \* the module-level catalog list
    fetchPc,          \* fetchCropsFromAgricultureAPI: "running" | "returned" | "assigned"
    page,             \* its local page counter
    crops,            \* its local accumulator
    fetchedCrops,     \* the list it returned
    requested,        \* the page numbers it has requested, in order
    served,           \* the responses the catalog API gave, in order
    reqPc,            \* the tool call: "idle" | "received" | "awaiting" | "done"
    req,              \* the arguments of the call and the crop enum built for it
    inflight,         \* what was handed to generateContent
    prompt,           \* the prompt handed to generateContent
    upstream,         \* what generateContent did: nothing yet, a text, or an error
    upstreamCalls,    \* calls of generateContent made for this request
    response          \* what the caller gets back

catalogVars == <<fetchPc, page, crops, fetchedCrops, requested, served>>
requestVars == <<reqPc, req, inflight, prompt, upstream, upstreamCalls, response>>
configVars == <<ADVISORY_MODE, OUTPUT_FORMAT>>
vars == <<genAI, configVars, SUPPORTED_CROPS, catalogVars, requestVars>>

----------------------------------------------------------------------------
(* Bounds of the model *)

MaxRequests == 3      \* page requests one refresh may make in the model
MaxPages == 3         \* largest page / totalPages value the catalog API reports

----------------------------------------------------------------------------
(* Sequence helpers *)

RECURSIVE Flatten(_)
Flatten(ss) == IF ss = <<>> THEN <<>> ELSE Head(ss) \o Flatten(Tail(ss))

SeqsUpTo(S, n) == UNION {[1..k -> S] : k \in 0..n}

----------------------------------------------------------------------------
(* Crop catalog *)

FALLBACK_CROPS == <<
    <<"m","a","i","z","e">>, <<"w","h","e","a","t">>, <<"r","i","c","e">>,
    <<"s","o","r","g","h","u","m">>, <<"m","i","l","l","e","t">>,
    <<"b","e","a","n","s">>, <<"c","o","w","p","e","a">>,
    <<"p","i","g","e","o","n","_","p","e","a">>,
    <<"g","r","o","u","n","d","n","u","t">>,
    <<"c","a","s","s","a","v","a">>,
    <<"s","w","e","e","t","_","p","o","t","a","t","o">>,
    <<"p","o","t","a","t","o">>,
    <<"t","o","m","a","t","o">>, <<"c","a","b","b","a","g","e">>,
    <<"k","a","l","e">>, <<"o","n","i","o","n">>,
    <<"v","e","g","e","t","a","b","l","e","s">>,
    <<"t","e","a">>, <<"c","o","f","f","e","e">>,
    <<"s","u","g","a","r","c","a","n","e">>, <<"b","a","n","a","n","a">>,
    <<"s","u","n","f","l","o","w","e","r">>, <<"c","o","t","t","o","n">> >>

\* String.prototype.toLowerCase on the characters the model uses
LowerChar(c) ==
    CASE c = "B" -> "b"
      [] c = "C" -> "c"
      [] c = "D" -> "d"
      [] c = "F" -> "f"
      [] c = "M" -> "m"
      [] c = "R" -> "r"
      [] OTHER -> c

ToLowerCase(s) == [i \in 1..Len(s) |-> LowerChar(s[i])]

\* the characters \s matches, among those the model uses
IsWhitespace(c) == c \in {" ", "\t", "\n"}

\* .replace(/\s+/g, '_'): every maximal run of whitespace becomes one underscore
RECURSIVE ReplaceWhitespaceRuns(_)
ReplaceWhitespaceRuns(s) ==
    IF s = <<>> THEN <<>>
    ELSE IF IsWhitespace(Head(s))
         THEN IF Len(s) > 1 /\ IsWhitespace(s[2])
              THEN ReplaceWhitespaceRuns(Tail(s))
              ELSE <<"_">> \o ReplaceWhitespaceRuns(Tail(s))
         ELSE <<Head(s)>> \o ReplaceWhitespaceRuns(Tail(s))

\* .replace(/[()]/g, '')
RemoveParentheses(s) == SelectSeq(s, LAMBDA c : c \notin {"(", ")"})

\* faulty variant: the parentheses stay
CropIdNoParenStrip(name) == ReplaceWhitespaceRuns(ToLowerCase(name))

\* the map callback of the page loop
CropId(name) == RemoveParentheses(ReplaceWhitespaceRuns(ToLowerCase(name)))

\* Record names the catalog API may serve, by the page body that holds them
Digit(i) == <<"0","1","2","3","4","5","6","7","8","9">>[(i % 10) + 1]
NumberedName(i) == <<"C"," ",Digit(i \div 10),Digit(i)>>
NumberedPage(n) == [i \in 1..n |-> NumberedName(i)]

PageBodies == {"mixed", "full", "short"}

PageData(body) ==
    CASE body = "mixed" ->
            << <<"R","i","c","e">>,
               <<"D","r","a","g","o","n"," "," ","F","r","u","i","t">>,
               <<"B","e","a","n","\t","(","M","u","n","g",")">>,
               <<"a"," ","("," ","b",")"," ">>,
               <<>> >>
      [] body = "full" -> NumberedPage(50)
      [] body = "short" -> NumberedPage(10)
      [] OTHER -> <<>>

NoPagination == [page |-> 0, totalPages |-> 0, present |-> FALSE]

Paginations ==
    {NoPagination} \cup
    [page : 1..MaxPages, totalPages : 0..MaxPages, present : {TRUE}]

\* What one page request can come back with.  Every kind but "ok" makes the
\* loop body throw: fetch rejects, !response.ok, response.json() rejects,
\* !data.success, !Array.isArray(data.data), crop.name is not a string.
FailureKinds == {"fetch_rejects", "not_ok", "json_throws", "success_false",
                 "data_not_array", "name_not_string"}

CatalogResponses ==
    [kind : FailureKinds, body : {"none"}, pagination : {NoPagination}] \cup
    [kind : {"ok"}, body : PageBodies, pagination : Paginations]

\* data.pagination && data.pagination.page < data.pagination.totalPages
MorePages(r) == r.pagination.present /\ r.pagination.page < r.pagination.totalPages

\* One iteration of the page loop that throws: the catch block returns a copy
\* of the fallback list.
\* faulty variant: the pages gathered so far are returned
ReturnPartialOnFailure(partial) == partial

ReturnOnFailure(partial) == FALLBACK_CROPS

FetchPageFails ==
    /\ fetchPc = "running"
    /\ Len(requested) < MaxRequests
    /\ \E r \in CatalogResponses :
        /\ r.kind # "ok"
        /\ requested' = Append(requested, page)
        /\ served' = Append(served, r)
        /\ fetchedCrops' = ReturnOnFailure(crops)
        /\ fetchPc' = "returned"
    /\ UNCHANGED <<page, crops, genAI, configVars, SUPPORTED_CROPS, requestVars>>

\* crops.push(...pageCrops)
PushPage(acc, data) == acc \o [i \in 1..Len(data) |-> CropId(data[i])]

\* One iteration that succeeds and finds more pages: page++
\* faulty variant: the rows gathered so far are published after every page
FetchPageMorePublishes ==
    /\ fetchPc = "running"
    /\ Len(requested) < MaxRequests
    /\ \E r \in CatalogResponses :
        /\ r.kind = "ok"
        /\ MorePages(r)
        /\ requested' = Append(requested, page)
        /\ served' = Append(served, r)
        /\ crops' = PushPage(crops, PageData(r.body))
        /\ page' = page + 1
    /\ SUPPORTED_CROPS' = crops'
    /\ UNCHANGED <<fetchPc, fetchedCrops, genAI, configVars, requestVars>>

FetchPageMore ==
    /\ fetchPc = "running"
    /\ Len(requested) < MaxRequests
    /\ \E r \in CatalogResponses :
        /\ r.kind = "ok"
        /\ MorePages(r)
        /\ requested' = Append(requested, page)
        /\ served' = Append(served, r)
        /\ crops' = PushPage(crops, PageData(r.body))
        /\ page' = page + 1
    /\ UNCHANGED <<fetchPc, fetchedCrops, genAI, configVars, SUPPORTED_CROPS, requestVars>>

\* One iteration that succeeds and is the last: hasMorePages = false, return crops
FetchPageLast ==
    /\ fetchPc = "running"
    /\ Len(requested) < MaxRequests
    /\ \E r \in CatalogResponses :
        /\ r.kind = "ok"
        /\ ~MorePages(r)
        /\ requested' = Append(requested, page)
        /\ served' = Append(served, r)
        /\ crops' = PushPage(crops, PageData(r.body))
        /\ fetchedCrops' = crops'
        /\ fetchPc' = "returned"
    /\ UNCHANGED <<page, genAI, configVars, SUPPORTED_CROPS, requestVars>>

\* The startup block: SUPPORTED_CROPS = fetchedCrops
StartupAssign ==
    /\ fetchPc = "returned"
    /\ SUPPORTED_CROPS' = fetchedCrops
    /\ fetchPc' = "assigned"
    /\ UNCHANGED <<page, crops, fetchedCrops, requested, served, genAI, configVars, requestVars>>

NoRequest == [image |-> <<>>, hasImage |-> FALSE, crop |-> <<>>, hasCrop |-> FALSE,
              cropEnum |-> <<>>]
NoResponse == [by |-> "none", text |-> <<>>, isError |-> "absent"]
NoUpstream == [outcome |-> "none", text |-> <<>>, message |-> <<>>, hasMessage |-> FALSE]
NoInflight == [mimeType |-> <<>>, data |-> <<>>, crop |-> <<>>, hasCrop |-> FALSE]
NoPrompt == <<>>

RequestIdle ==
    /\ reqPc = "idle"
    /\ req = NoRequest
    /\ inflight = NoInflight
    /\ prompt = NoPrompt
    /\ upstream = NoUpstream
    /\ upstreamCalls = 0
    /\ response = NoResponse

\* Process start: the fetch is about to run, the list holds the fallback.
\* The refresh never reads the client, so one value of genAI stands for both.
InitCatalog ==
    /\ genAI = TRUE
    /\ ADVISORY_MODE = "diagnosis_only"
    /\ OUTPUT_FORMAT = "structured"
    /\ SUPPORTED_CROPS = FALLBACK_CROPS
    /\ fetchPc = "running"
    /\ page = 1
    /\ crops = <<>>
    /\ fetchedCrops = <<>>
    /\ requested = <<>>
    /\ served = <<>>
    /\ RequestIdle

NextCatalog == FetchPageFails \/ FetchPageMore \/ FetchPageLast \/ StartupAssign

SpecCatalog == InitCatalog /\ [][NextCatalog]_vars

\* The page loop has no bound of its own.  Iterations after the first
\* MaxRequests are the same loop body; the model stops counting there: page
\* stands for "MaxPages + 1 or more", crops keeps the rows of the first
\* MaxRequests pages, and the last slot of requested and served holds the
\* latest request and its response.
FetchPageBeyond ==
    /\ fetchPc = "running"
    /\ Len(requested) = MaxRequests
    /\ \E r \in CatalogResponses :
        /\ requested' = [requested EXCEPT ![MaxRequests] = page]
        /\ served' = [served EXCEPT ![MaxRequests] = r]
        /\ IF r.kind # "ok"
              THEN fetchedCrops' = ReturnOnFailure(crops) /\ fetchPc' = "returned"
              ELSE IF MorePages(r)
                     THEN UNCHANGED <<fetchedCrops, fetchPc>>
                     ELSE fetchedCrops' = crops /\ fetchPc' = "returned"
    /\ UNCHANGED <<page, crops, genAI, configVars, SUPPORTED_CROPS, requestVars>>

NextCatalogFair == NextCatalog \/ FetchPageBeyond

\* The event loop resumes the refresh whenever a response has arrived, and
\* the catalog API answers every request.
SpecCatalogFair == InitCatalog /\ [][NextCatalogFair]_vars /\ WF_vars(NextCatalogFair)


----------------------------------------------------------------------------
(* The diagnose_plant_health tool *)

MaxJunkLen == 2       \* tokens in an arbitrary image string
MaxPayloadLen == 2    \* tokens after the "data:image/<type>;base64," frame
MaxMsgWords == 2      \* words in an upstream error message

Range(s) == {s[i] : i \in 1..Len(s)}

\* Lexical tokens of image strings.  "A" is one base64 character; "PAD",
\* "BLK" and "M7" are runs of base64 characters; "\n" is a line feed.
TypeTokens == {"jpeg", "jpg", "png", "webp", "gif", "JPEG"}
PayloadTokens == {"A", "PAD", "BLK", "M7", "\n"}
ImgTokens == {"data:image/", ";base64,"} \cup TypeTokens \cup PayloadTokens

TokLen(t) ==
    CASE t = "data:image/" -> 11
      [] t = ";base64," -> 8
      [] t \in {"jpeg", "webp", "JPEG"} -> 4
      [] t \in {"jpg", "png", "gif"} -> 3
      [] t = "PAD" -> 139811
      [] t = "BLK" -> 6990506
      [] t = "M7" -> 7340032
      [] OTHER -> 1

RECURSIVE StrLen(_)
StrLen(s) == IF s = <<>> THEN 0 ELSE TokLen(Head(s)) + StrLen(Tail(s))

Images ==
    SeqsUpTo(ImgTokens, MaxJunkLen) \cup
    { <<"data:image/", t, ";base64,">> \o p :
        t \in TypeTokens, p \in SeqsUpTo(PayloadTokens, MaxPayloadLen) }

\* express.json({ limit: '10mb' }): a larger body never reaches the route
BodyLimit == 10 * 1024 * 1024

MAIZE == <<"m","a","i","z","e">>
RICE == <<"r","i","c","e">>
DRAGON_FRUIT == <<"d","r","a","g","o","n","_","f","r","u","i","t">>
DURIAN == <<"d","u","r","i","a","n">>

\* crop arguments a caller may send ("" included)
CropArgs == {MAIZE, RICE, DRAGON_FRUIT, DURIAN, <<>>}

\* lists the startup fetch may have returned: the fallback copy, an empty
\* catalog, a fetched catalog
FetchedSamples == {FALLBACK_CROPS, <<>>, <<RICE, DRAGON_FRUIT>>}

\* cropEnum = SUPPORTED_CROPS.length > 0 ? z.enum(SUPPORTED_CROPS) : z.string()
\* schema: { image: z.string(), crop: cropEnum.optional() }
\* faulty variant: crop: z.string().optional()
SchemaAcceptsAnyCrop(r) == r.hasImage

SchemaAccepts(r) ==
    /\ r.hasImage
    /\ \/ ~r.hasCrop
       \/ r.cropEnum = <<>>
       \/ r.crop \in Range(r.cropEnum)

\* image.match(/^data:image\/(jpeg|jpg|png|webp);base64,(.+)$/): "." matches
\* no line terminator and, without the m flag, "$" is the end of the input
\* faulty variant: any subtype is accepted
Base64MatchAnyType(image) ==
    /\ Len(image) >= 4
    /\ image[1] = "data:image/"
    /\ image[3] = ";base64,"
    /\ \A i \in 4..Len(image) : image[i] # "\n"

Base64Match(image) ==
    /\ Len(image) >= 4
    /\ image[1] = "data:image/"
    /\ image[2] \in {"jpeg", "jpg", "png", "webp"}
    /\ image[3] = ";base64,"
    /\ \A i \in 4..Len(image) : image[i] # "\n"

MimeType(image) == <<"image/", image[2]>>          \* `image/${base64Match[1]}`
ImageData(image) == SubSeq(image, 4, Len(image))   \* base64Match[2]

MaxSizeMB == 5

\* imageSizeMB > 5, with imageSizeMB = (imageData.length * 3) / 4 / (1024 * 1024);
\* every value is a multiple of 2^-22 below 2^53, so the doubles are exact
TooLarge(imageData) == StrLen(imageData) * 3 > MaxSizeMB * 4 * 1024 * 1024

\* imageSizeMB.toFixed(1): the nearest tenth, the larger one on a tie
\* faulty variant: the size is cut off after one decimal, not rounded
SizeTenthsTruncated(imageData) == (StrLen(imageData) * 30) \div (4 * 1024 * 1024)

SizeTenths(imageData) ==
    (StrLen(imageData) * 30 + 2 * 1024 * 1024) \div (4 * 1024 * 1024)

ToFixed1(tenths) == <<ToString(tenths \div 10), ".", ToString(tenths % 10)>>

\* Tool results.  isError is "true" or "absent"; the text is a sequence of
\* pieces.  "(x)" stands for the cross-mark emoji of the source text.
Result(text, isError) == [by |-> "handler", text |-> text, isError |-> isError]

ServiceUnavailable ==
    Result(<<"(x) Plant diagnosis service is currently unavailable. Please try again later.">>,
           "true")
NoImageProvided ==
    Result(<<"Please provide an image of the plant for diagnosis.">>, "true")
InvalidImageFormat ==
    Result(<<"Invalid image format. Please provide a JPEG, PNG, or WebP image in base64 format (data:image/jpeg;base64,...).">>,
           "true")
\* faulty variant: the too-large result without isError
ImageTooLargeNoFlag(imageData) ==
    [by |-> "handler",
     text |-> <<"Image is too large (">> \o ToFixed1(SizeTenths(imageData)) \o
              <<"MB). Please provide an image smaller than 5MB.">>,
     isError |-> "absent"]
ImageTooLarge(imageData) ==
    Result(<<"Image is too large (">> \o ToFixed1(SizeTenths(imageData)) \o
           <<"MB). Please provide an image smaller than 5MB.">>, "true")
ConfigurationError ==
    Result(<<"(x) Plant diagnosis service configuration error. Please contact support.">>,
           "true")
QuotaExceeded ==
    Result(<<"(x) Plant diagnosis service is temporarily unavailable due to high demand. Please try again later.">>,
           "true")
UnableToAnalyze ==
    Result(<<"Unable to analyze the plant image. Please ensure the image clearly shows the plant and try again.">>,
           "true")

\* faulty variant: an empty report is turned into a failure
SuccessOnlyIfNonEmpty(diagnosis) ==
    IF diagnosis = <<>> THEN UnableToAnalyze ELSE Result(diagnosis, "absent")

\* return { content: [{ type: 'text', text: diagnosis }] }
Success(diagnosis) == Result(diagnosis, "absent")

\* The handler up to the await of generateContent: a result, or "call" when
\* it goes on to call the model.
CALL == [by |-> "handler", text |-> <<"generateContent">>, isError |-> "call"]

\* faulty variant: the image format is checked before the client
HandlerSyncFormatFirst(r) ==
    IF ~Base64Match(r.image) THEN InvalidImageFormat
    ELSE IF ~genAI THEN ServiceUnavailable
    ELSE IF TooLarge(ImageData(r.image)) THEN ImageTooLarge(ImageData(r.image))
    ELSE CALL

\* faulty variant: the size check is skipped
HandlerSyncNoSizeCheck(r) ==
    IF ~genAI THEN ServiceUnavailable
    ELSE IF ~r.hasImage \/ Len(r.image) = 0 THEN NoImageProvided
    ELSE IF ~Base64Match(r.image) THEN InvalidImageFormat
    ELSE CALL

HandlerSync(r) ==
    IF ~genAI THEN ServiceUnavailable
    ELSE IF ~r.hasImage \/ Len(r.image) = 0 THEN NoImageProvided
    ELSE IF ~Base64Match(r.image) THEN InvalidImageFormat
    ELSE IF TooLarge(ImageData(r.image)) THEN ImageTooLarge(ImageData(r.image))
    ELSE CALL

\* String.prototype.includes
Includes(s, sub) ==
    \E i \in 0..(Len(s) - Len(sub)) : SubSeq(s, i + 1, i + Len(sub)) = sub

API_KEY == <<"A","P","I"," ","k","e","y">>
QUOTA == <<"q","u","o","t","a">>

MsgWords == {API_KEY, QUOTA, <<"A","P","I"," ">>, <<"k","e","y">>,
             <<"Q","u","o","t","a">>, <<" ","4","2","9"," ">>}

\* Messages of the errors generateContent (or response.text()) may throw
Messages == {Flatten(ws) : ws \in SeqsUpTo(MsgWords, MaxMsgWords)}

\* Texts the model may return
ModelTexts == {<<>>, <<"Healthy">>, <<"{ not a report">>,
               <<"Unable to analyze the plant image. Please ensure the image clearly shows the plant and try again.">>}

\* The catch block.  An error without a message (error.message undefined)
\* skips both includes() tests.
\* faulty variant: the default branch returns error.message
CatchBlockLeaks(hasMessage, message) ==
    IF hasMessage /\ Includes(message, API_KEY) THEN ConfigurationError
    ELSE IF hasMessage /\ Includes(message, QUOTA) THEN QuotaExceeded
    ELSE Result(message, "true")

\* faulty variant: no quota branch
CatchBlockNoQuota(hasMessage, message) ==
    IF hasMessage /\ Includes(message, API_KEY) THEN ConfigurationError
    ELSE UnableToAnalyze

CatchBlock(hasMessage, message) ==
    IF hasMessage /\ Includes(message, API_KEY) THEN ConfigurationError
    ELSE IF hasMessage /\ Includes(message, QUOTA) THEN QuotaExceeded
    ELSE UnableToAnalyze

\* app.post('/mcp'): the crop enum is built from the list as it is now, then
\* the transport takes over (await server.connect, await handleRequest)
PostMcp ==
    /\ reqPc = "idle"
    /\ \E hasImage \in BOOLEAN, image \in Images, hasCrop \in BOOLEAN, crop \in CropArgs :
        /\ hasImage \/ image = <<>>
        /\ hasCrop \/ crop = <<>>
        /\ StrLen(image) < BodyLimit
        /\ req' = [image |-> image, hasImage |-> hasImage, crop |-> crop,
                   hasCrop |-> hasCrop, cropEnum |-> SUPPORTED_CROPS]
    /\ reqPc' = "received"
    /\ UNCHANGED <<inflight, prompt, upstream, upstreamCalls, response,
                   genAI, configVars, SUPPORTED_CROPS, catalogVars>>

\* The SDK rejects arguments the schema does not accept and never calls the
\* handler.  Depending on the SDK release the rejection is a JSON-RPC
\* InvalidParams error (no tool result, so no isError) or a tool result with
\* isError: true.
SchemaRejections ==
    { [by |-> "schema", text |-> <<"Invalid arguments for tool diagnose_plant_health">>,
       isError |-> e] : e \in {"true", "absent"} }

ToolCallRejected ==
    /\ reqPc = "received"
    /\ ~SchemaAccepts(req)
    /\ response' \in SchemaRejections
    /\ reqPc' = "done"
    /\ UNCHANGED <<req, inflight, prompt, upstream, upstreamCalls,
                   genAI, configVars, SUPPORTED_CROPS, catalogVars>>

\* The handler returns before it reaches the model
ToolCallReturnsEarly ==
    /\ reqPc = "received"
    /\ SchemaAccepts(req)
    /\ HandlerSync(req) # CALL
    /\ response' = HandlerSync(req)
    /\ reqPc' = "done"
    /\ UNCHANGED <<req, inflight, prompt, upstream, upstreamCalls,
                   genAI, configVars, SUPPORTED_CROPS, catalogVars>>

----------------------------------------------------------------------------
(* The prompt.  A prompt is the sequence of its lines; a line is the sequence
   of its space-separated words, and the line that interpolates the crop also
   holds the characters put in place of the word "${crop}.".  The emoji that
   open the section headings are written (seedling), (magnifier), (warning),
   (chart), (microscope) and (pill). *)

Lit(ws) == [words |-> ws, crop |-> <<>>]
Blank == Lit(<<>>)

\* crop.replace('_', ' '): a string pattern replaces the first match only
ReplaceFirstUnderscore(s) ==
    IF \E i \in 1..Len(s) : s[i] = "_"
    THEN LET k == CHOOSE i \in 1..Len(s) : s[i] = "_" /\ \A j \in 1..(i - 1) : s[j] # "_"
         IN [i \in 1..Len(s) |-> IF i = k THEN " " ELSE s[i]]
    ELSE s

\* const cropContext = crop ? `... ${crop.replace('_', ' ')}. ...` : '...'
CropContext(crop, hasCrop) ==
    IF hasCrop /\ crop # <<>>
    THEN [words |-> <<"The", "plant", "is", "expected", "to", "be", "${crop}.",
                      "Verify", "if", "the", "image", "matches", "this", "crop", "type.">>,
          crop |-> ReplaceFirstUnderscore(crop)]
    ELSE Lit(<<"Identify", "the", "plant/crop", "species", "from", "the", "image.">>)

\* ${OUTPUT_FORMAT === 'structured' ? 'structured' : 'detailed'}
ReportKind == IF OUTPUT_FORMAT = "structured" THEN <<"structured">> ELSE <<"detailed">>
\* ${OUTPUT_FORMAT === 'structured' ? 'structured format' : 'format'}:
FormatKind == IF OUTPUT_FORMAT = "structured" THEN <<"structured", "format:">> ELSE <<"format:">>

\* Base diagnostic sections (always included)
DiagnosticSections(cropContext) ==
    <<
      Lit(<<"You", "are", "an", "expert", "agricultural", "pathologist.", "Analyze", "this", "plant", "image", "and", "provide", "a">> \o ReportKind \o <<"report.">>),
      Blank,
      cropContext,
      Blank,
      Lit(<<"Provide", "your", "analysis", "in", "the", "following">> \o FormatKind),
      Blank,
      Lit(<<"(seedling)", "**CROP", "IDENTIFICATION:**">>),
      Lit(<<"[Identify", "the", "crop/plant", "species", "with", "confidence", "level", "(High/Medium/Low)]">>),
      Lit(<<"[If", "crop", "was", "specified", "but", "doesn't", "match:", "clearly", "state", "the", "mismatch]">>),
      Lit(<<"[Format:", "\"Crop:", "[Name]", "(Scientific:", "[Latin", "name])", "-", "Confidence:", "[level]\"]">>),
      Blank,
      Lit(<<"(magnifier)", "**HEALTH", "STATUS:**">>),
      Lit(<<"[Overall", "health:", "Healthy", "/", "Mild", "Issue", "/", "Moderate", "Issue", "/", "Severe", "Issue", "/", "Critical]">>),
      Lit(<<"[Confidence:", "High", "/", "Medium", "/", "Low]">>),
      Blank,
      Lit(<<"(warning)", "**ISSUE", "DETECTION:**">>),
      Lit(<<"[If", "issues", "detected,", "list", "each", "one", "separately:]">>),
      Blank,
      Lit(<<"**Issue", "1:", "[Disease/Pest/Deficiency", "Name]**">>),
      Lit(<<"-", "Scientific", "name:", "[Latin", "name", "if", "applicable]">>),
      Lit(<<"-", "Category:", "[Disease/Pest/Nutrient", "Deficiency/Physical", "Damage/Other]">>),
      Lit(<<"-", "Severity:", "[Low/Moderate/High/Critical]">>),
      Lit(<<"-", "Stage:", "[Early/Active/Advanced]">>),
      Lit(<<"-", "Affected", "parts:", "[Leaves/Stem/Roots/Fruit/Flowers/Entire", "plant]">>),
      Lit(<<"-", "Visible", "symptoms:", "[Detailed", "list", "of", "what", "you", "observe]">>),
      Lit(<<"-", "Causal", "agent:", "[Fungus/Bacteria/Virus/Insect/Mite/Environmental/Unknown]">>),
      Blank,
      Lit(<<"[Repeat", "for", "each", "issue", "detected]">>),
      Blank,
      Lit(<<"(chart)", "**GROWTH", "STAGE:**">>),
      Lit(<<"[Seedling/Vegetative/Flowering/Fruiting/Mature/Senescent]">>),
      Blank,
      Lit(<<"(microscope)", "**DIAGNOSTIC", "NOTES:**">>),
      Lit(<<"[Additional", "observations,", "differential", "diagnosis", "if", "multiple", "possibilities,", "uncertainty", "notes]">>)
    >>

\* the text appended in full_advisory mode
TreatmentSections ==
    <<
      Blank,
      Blank,
      Lit(<<"(pill)", "**TREATMENT", "RECOMMENDATIONS:**">>),
      Lit(<<"[For", "each", "detected", "issue,", "provide", "treatment", "guidance:]">>),
      Blank,
      Lit(<<"**Treatment", "for", "Issue", "1:", "[Issue", "Name]**">>),
      Blank,
      Lit(<<"*Organic", "Options:*">>),
      Lit(<<"-", "Option", "1:", "[Treatment", "name/method]">>),
      Lit(<<"-", "Application:", "[How", "to", "apply]">>),
      Lit(<<"-", "Frequency:", "[How", "often]">>),
      Lit(<<"-", "Timing:", "[When", "to", "apply]">>),
      Lit(<<"-", "Option", "2:", "[Alternative", "organic", "treatment]">>),
      Blank,
      Lit(<<"*Chemical", "Options:*">>),
      Lit(<<"-", "Product", "1:", "[Active", "ingredient/product", "type]">>),
      Lit(<<"-", "Application:", "[How", "to", "apply]">>),
      Lit(<<"-", "Dosage:", "[General", "dosage", "guidance]">>),
      Lit(<<"-", "Safety:", "[Key", "safety", "precautions]">>),
      Lit(<<"-", "Product", "2:", "[Alternative", "chemical", "treatment]">>),
      Blank,
      Lit(<<"*Preventive", "Measures:*">>),
      Lit(<<"-", "[Cultural", "practices", "to", "prevent", "recurrence]">>),
      Lit(<<"-", "[Environmental", "management]">>),
      Lit(<<"-", "[Crop", "rotation/spacing", "recommendations]">>),
      Blank,
      Lit(<<"[Repeat", "for", "each", "issue]">>),
      Blank,
      Lit(<<"(warning)", "**IMPORTANT", "NOTES:**">>),
      Lit(<<"-", "Always", "consult", "local", "agricultural", "extension", "services", "for", "region-specific", "product", "recommendations">>),
      Lit(<<"-", "Follow", "all", "product", "label", "instructions", "and", "safety", "guidelines">>),
      Lit(<<"-", "Consider", "integrated", "pest", "management", "(IPM)", "approaches">>),
      Lit(<<"-", "Monitor", "plant", "response", "and", "adjust", "treatment", "as", "needed">>)
    >>

\* if (ADVISORY_MODE === 'full_advisory')
\* faulty variant: every mode but diagnosis_only gets the treatment sections
IncludesTreatmentUnlessDiagnosis == ADVISORY_MODE # "diagnosis_only"

IncludesTreatment == ADVISORY_MODE = "full_advisory"

\* ${ADVISORY_MODE === 'diagnosis_only' ? '...NO treatment...' : '...'}
\* faulty variant: the rule never forbids
ModeRuleAlwaysAsks(forbid, ask) == ask

ModeRule(forbid, ask) == IF ADVISORY_MODE = "diagnosis_only" THEN forbid ELSE ask

ForbidRule == Lit(<<"-", "Focus", "ONLY", "on", "diagnosis", "-", "NO", "treatment", "recommendations,", "NO", "regional", "advice">>)
\* the rule of the structured format outside diagnosis_only
AskStructured == Lit(<<"-", "Provide", "comprehensive", "treatment", "guidance", "with", "multiple", "options">>)
RulesStructured ==
    <<
      Blank,
      Blank,
      Lit(<<"IMPORTANT", "RULES:">>),
      Lit(<<"-", "Be", "specific", "about", "disease/pest", "names", "(use", "both", "common", "and", "scientific", "names)">>),
      Lit(<<"-", "If", "image", "is", "unclear", "or", "doesn't", "show", "a", "plant,", "state", "this", "clearly">>),
      Lit(<<"-", "If", "uncertain,", "provide", "confidence", "levels", "and", "alternative", "possibilities">>),
      Lit(<<"-", "Use", "precise", "botanical", "and", "pathological", "terminology">>),
      Lit(<<"-", "Maintain", "structured", "format", "with", "clear", "sections">>),
      ModeRule(ForbidRule, AskStructured),
      Lit(<<"-", "Indicate", "if", "further", "laboratory", "testing", "is", "recommended", "for", "confirmation">>)
    >>

\* the rule of the text format outside diagnosis_only
AskText == Lit(<<"-", "Provide", "comprehensive", "treatment", "guidance", "in", "a", "farmer-friendly", "format">>)
RulesText ==
    <<
      Blank,
      Blank,
      Lit(<<"IMPORTANT", "RULES:">>),
      Lit(<<"-", "Be", "specific", "about", "disease/pest", "names", "(use", "both", "common", "and", "scientific", "names)">>),
      Lit(<<"-", "If", "image", "is", "unclear", "or", "doesn't", "show", "a", "plant,", "state", "this", "clearly">>),
      Lit(<<"-", "If", "uncertain,", "provide", "confidence", "levels", "and", "alternative", "possibilities">>),
      Lit(<<"-", "Use", "clear,", "readable", "formatting", "with", "appropriate", "spacing">>),
      ModeRule(ForbidRule, AskText),
      Lit(<<"-", "Indicate", "if", "further", "laboratory", "testing", "is", "recommended", "for", "confirmation">>)
    >>

\* const formattingRules = OUTPUT_FORMAT === 'structured' ? ... : ...
FormattingRules == IF OUTPUT_FORMAT = "structured" THEN RulesStructured ELSE RulesText

\* const prompt = promptSections + formattingRules
ComposePrompt(crop, hasCrop) ==
    DiagnosticSections(CropContext(crop, hasCrop))
        \o (IF IncludesTreatment THEN TreatmentSections ELSE <<>>)
        \o FormattingRules

\* The handler reaches await model.generateContent([prompt, { inlineData }])
ToolCallReachesModel ==
    /\ reqPc = "received"
    /\ SchemaAccepts(req)
    /\ HandlerSync(req) = CALL
    /\ inflight' = [mimeType |-> MimeType(req.image), data |-> ImageData(req.image),
                    crop |-> req.crop, hasCrop |-> req.hasCrop /\ req.crop # <<>>]
    /\ prompt' = ComposePrompt(req.crop, req.hasCrop)
    /\ upstreamCalls' = upstreamCalls + 1
    /\ reqPc' = "awaiting"
    /\ UNCHANGED <<req, upstream, response, genAI, configVars, SUPPORTED_CROPS, catalogVars>>

\* generateContent resolves and response.text() gives the text
GenerateContentReturns ==
    /\ reqPc = "awaiting"
    /\ \E t \in ModelTexts :
        /\ upstream' = [outcome |-> "returned", text |-> t, message |-> <<>>,
                        hasMessage |-> FALSE]
        /\ response' = Success(t)
    /\ reqPc' = "done"
    /\ UNCHANGED <<req, inflight, prompt, upstreamCalls, genAI, configVars, SUPPORTED_CROPS, catalogVars>>

\* generateContent rejects, or response.text() throws
GenerateContentThrows ==
    /\ reqPc = "awaiting"
    /\ \E hasMessage \in BOOLEAN, m \in Messages :
        /\ hasMessage \/ m = <<>>
        /\ upstream' = [outcome |-> "threw", text |-> <<>>, message |-> m,
                        hasMessage |-> hasMessage]
        /\ response' = CatchBlock(hasMessage, m)
    /\ reqPc' = "done"
    /\ UNCHANGED <<req, inflight, prompt, upstreamCalls, genAI, configVars, SUPPORTED_CROPS, catalogVars>>

\* The response is sent; the next request gets a fresh server and handler
RequestEnds ==
    /\ reqPc = "done"
    /\ reqPc' = "idle"
    /\ req' = NoRequest
    /\ inflight' = NoInflight
    /\ prompt' = NoPrompt
    /\ upstream' = NoUpstream
    /\ upstreamCalls' = 0
    /\ response' = NoResponse
    /\ UNCHANGED <<genAI, configVars, SUPPORTED_CROPS, catalogVars>>

\* The server is listening and the startup fetch has returned its list; the
\* assignment to SUPPORTED_CROPS may still be pending when requests arrive.
Init ==
    /\ genAI \in BOOLEAN
    /\ ADVISORY_MODE = "diagnosis_only"
    /\ OUTPUT_FORMAT = "structured"
    /\ SUPPORTED_CROPS = FALLBACK_CROPS
    /\ fetchPc = "returned"
    /\ page = 1
    /\ crops = <<>>
    /\ fetchedCrops \in FetchedSamples
    /\ requested = <<>>
    /\ served = <<>>
    /\ RequestIdle

Next ==
    \/ StartupAssign
    \/ PostMcp
    \/ ToolCallRejected
    \/ ToolCallReturnsEarly
    \/ ToolCallReachesModel
    \/ GenerateContentReturns
    \/ GenerateContentThrows
    \/ RequestEnds

Spec == Init /\ [][Next]_vars

----------------------------------------------------------------------------
(* The startup fetch running while requests are served: the async function
   started at module load yields at every await, and app.listen has been
   called by then.  The steps are those of the two specifications above; the
   catalog responses, images, model texts and error messages are samples. *)

StartupResponses ==
    { r \in CatalogResponses :
        /\ r.kind \in {"ok", "not_ok"}
        /\ r.body \in {"none", "mixed", "short"}
        /\ r.pagination \in {NoPagination, [page |-> 1, totalPages |-> 2, present |-> TRUE]} }

StartupImages == {<<>>, <<"data:image/", "png", ";base64,", "A">>}

StartupFetchFails == FetchPageFails /\ served'[Len(served')] \in StartupResponses
StartupFetchMore == FetchPageMore /\ served'[Len(served')] \in StartupResponses
StartupFetchLast == FetchPageLast /\ served'[Len(served')] \in StartupResponses
StartupPostMcp == PostMcp /\ req'.image \in StartupImages
StartupReturns == GenerateContentReturns /\ upstream'.text = <<"Healthy">>
StartupThrows == GenerateContentThrows /\ upstream'.message = QUOTA

NextStartup ==
    \/ StartupFetchFails
    \/ StartupFetchMore
    \/ StartupFetchLast
    \/ StartupAssign
    \/ StartupPostMcp
    \/ ToolCallRejected
    \/ ToolCallReturnsEarly
    \/ ToolCallReachesModel
    \/ StartupReturns
    \/ StartupThrows
    \/ RequestEnds

SpecStartup == InitCatalog /\ [][NextStartup]_vars

----------------------------------------------------------------------------
(* The prompt under every configuration.  The two settings are read from the
   environment once, unvalidated: any non-empty string is kept as it is. *)

AdvisoryModes == {"diagnosis_only", "full_advisory", "full", "FULL_ADVISORY"}
OutputFormats == {"structured", "text", "json"}

InitPrompt ==
    /\ genAI = TRUE
    /\ ADVISORY_MODE \in AdvisoryModes
    /\ OUTPUT_FORMAT \in OutputFormats
    /\ SUPPORTED_CROPS = FALLBACK_CROPS
    /\ fetchPc = "returned"
    /\ page = 1
    /\ crops = <<>>
    /\ fetchedCrops \in FetchedSamples
    /\ requested = <<>>
    /\ served = <<>>
    /\ RequestIdle

NextPrompt ==
    \/ StartupAssign
    \/ StartupPostMcp
    \/ ToolCallRejected
    \/ ToolCallReturnsEarly
    \/ ToolCallReachesModel
    \/ StartupReturns
    \/ StartupThrows
    \/ RequestEnds

SpecPrompt == InitPrompt /\ [][NextPrompt]_vars


----------------------------------------------------------------------------
(* Properties of the diagnose tool *)

Done == reqPc = "done"

\* the pattern data:image/(jpeg|jpg|png|webp);base64,<payload>, payload a
\* non-empty run of characters without a line break
MatchesDataUri(image) ==
    /\ Len(image) > 3
    /\ SubSeq(image, 1, 3) \in
         { <<"data:image/", t, ";base64,">> : t \in {"jpeg", "jpg", "png", "webp"} }
    /\ "\n" \notin Range(SubSeq(image, 4, Len(image)))

Payload(image) == SubSeq(image, 4, Len(image))

\* C1 as stated: with no credential configured every finished request ends in
\* ServiceUnavailable with isError true, whatever image and crop it carried,
\* and the model was not called.
C1_AnyRequestUnavailable ==
    (Done /\ ~genAI) =>
        /\ response = ServiceUnavailable
        /\ response.isError = "true"
        /\ upstreamCalls = 0

\* C1 amended: with no credential configured, every request whose arguments
\* the tool's input schema accepts ends in ServiceUnavailable with isError
\* true, whatever its image is; no image check decides the outcome and the
\* model is not called.
C1_AcceptedRequestUnavailable ==
    (Done /\ ~genAI /\ req.hasImage
          /\ (req.hasCrop => (req.cropEnum = <<>> \/ req.crop \in Range(req.cropEnum)))) =>
        /\ response.by = "handler"
        /\ response.text =
             <<"(x) Plant diagnosis service is currently unavailable. Please try again later.">>
        /\ response.isError = "true"
        /\ upstreamCalls = 0
        /\ inflight = NoInflight

C1_Witness ==
    /\ Done /\ ~genAI
    /\ response = ServiceUnavailable
    /\ req.hasCrop /\ req.crop = RICE
    /\ ~MatchesDataUri(req.image) /\ req.image # <<>>

\* C2: once the handler runs with a client configured, an empty image gives
\* the "no image provided" failure, any other image that does not match the
\* data-URI pattern gives the "invalid image format" failure, both with
\* isError true and without a call of the model; a missing image takes the
\* same branch as the empty one.
C2_ImageDecodingTotal ==
    /\ (Done /\ genAI /\ response.by = "handler" /\ ~MatchesDataUri(req.image)) =>
          /\ response.text =
               IF req.image = <<>>
               THEN <<"Please provide an image of the plant for diagnosis.">>
               ELSE <<"Invalid image format. Please provide a JPEG, PNG, or WebP image in base64 format (data:image/jpeg;base64,...).">>
          /\ response.isError = "true"
          /\ upstreamCalls = 0
    /\ (reqPc = "awaiting") => MatchesDataUri(req.image)
    /\ genAI => HandlerSync(NoRequest).text =
                  <<"Please provide an image of the plant for diagnosis.">>

C2_Witness ==
    /\ Done /\ genAI
    /\ req.image = <<"data:image/", "gif", ";base64,", "A">>
    /\ response = InvalidImageFormat

\* C3: for a well-formed image the size check passes exactly when
\* len(payload) * 3 / 4 is at most 5 * 1024 * 1024 bytes; above that the
\* request fails with the too-large message, which carries the size in MB
\* rounded to one decimal place, and the model is not called.
C3_SizeCheck ==
    (reqPc \in {"awaiting", "done"} /\ genAI /\ response.by # "schema"
        /\ MatchesDataUri(req.image)) =>
        LET n == StrLen(Payload(req.image)) IN
        IF n * 3 <= 4 * (5 * 1024 * 1024)
        THEN upstreamCalls = 1 /\ inflight.data = Payload(req.image)
        ELSE /\ Done
             /\ upstreamCalls = 0
             /\ response.isError = "true"
             /\ \E t \in 50..100 :
                  /\ t * 4194304 - 30 * n > -2097152
                  /\ t * 4194304 - 30 * n <= 2097152
                  /\ response.text =
                       <<"Image is too large (", ToString(t \div 10), ".", ToString(t % 10),
                         "MB). Please provide an image smaller than 5MB.">>

C3_Witness ==
    /\ Done /\ genAI
    /\ req.image = <<"data:image/", "png", ";base64,", "M7">>
    /\ response.text[2] = "5" /\ response.text[4] = "3"

Contains(s, sub) ==
    \E i \in 0..Len(s), j \in 1..(Len(s) + 1) :
        SubSeq(s, 1, i) \o sub \o SubSeq(s, j, Len(s)) = s

Threw == Done /\ upstream.outcome = "threw"

\* C5 as stated: an upstream error whose message contains "quota" always
\* ends in the quota failure, whatever else the message contains.
C5_QuotaAlways ==
    (Threw /\ upstream.hasMessage /\ Contains(upstream.message, <<"q","u","o","t","a">>)) =>
        response.text =
          <<"(x) Plant diagnosis service is temporarily unavailable due to high demand. Please try again later.">>

\* C5 amended: an upstream error whose message contains "quota" and does not
\* contain "API key" ends in the quota failure.
C5_QuotaUnlessApiKey ==
    (Threw /\ upstream.hasMessage
           /\ Contains(upstream.message, <<"q","u","o","t","a">>)
           /\ ~Contains(upstream.message, <<"A","P","I"," ","k","e","y">>)) =>
        /\ response.text =
             <<"(x) Plant diagnosis service is temporarily unavailable due to high demand. Please try again later.">>
        /\ response.isError = "true"

C5_Witness ==
    /\ Threw
    /\ upstream.message = <<" ","4","2","9"," ","q","u","o","t","a">>
    /\ response = QuotaExceeded

\* The failure kind of an upstream error, as the error taxonomy names it
UpstreamKind(hasMessage, message) ==
    IF hasMessage /\ Contains(message, <<"A","P","I"," ","k","e","y">>) THEN "UpstreamAuthError"
    ELSE IF hasMessage /\ Contains(message, <<"q","u","o","t","a">>) THEN "UpstreamQuotaExceeded"
    ELSE "UpstreamUnknownError"

UpstreamText(kind) ==
    CASE kind = "UpstreamAuthError" ->
           <<"(x) Plant diagnosis service configuration error. Please contact support.">>
      [] kind = "UpstreamQuotaExceeded" ->
           <<"(x) Plant diagnosis service is temporarily unavailable due to high demand. Please try again later.">>
      [] OTHER ->
           <<"Unable to analyze the plant image. Please ensure the image clearly shows the plant and try again.">>

\* C6: after an upstream failure the caller gets the fixed text of the
\* failure's kind, with isError true; the three texts differ from one another
\* and nothing of the raw error message is in the response.
C6_FixedNonLeakingMessages ==
    /\ Threw =>
         /\ response.text = UpstreamText(UpstreamKind(upstream.hasMessage, upstream.message))
         /\ response.isError = "true"
         /\ upstream.hasMessage =>
              (response.text # upstream.message /\ Len(response.text) = 1)
    /\ Cardinality({UpstreamText(k) : k \in {"UpstreamAuthError", "UpstreamQuotaExceeded",
                                             "UpstreamUnknownError"}}) = 3

C6_Witness ==
    /\ Threw
    /\ upstream.message = <<"k","e","y"," ","4","2","9"," ">>
    /\ response = UnableToAnalyze

\* C7: in every result the handler returns, isError is true exactly when the
\* request failed; the success result carries no isError.
C7_IsErrorIffFailure ==
    (Done /\ response.by = "handler") =>
        /\ response.isError \in {"true", "absent"}
        /\ (response.isError = "true") <=> (upstream.outcome # "returned")
        /\ (upstream.outcome = "returned") => (response.isError = "absent")

C7_Witness ==
    /\ Done /\ response.by = "handler"
    /\ req.image = <<"data:image/", "webp", ";base64,", "BLK", "A">>
    /\ response.isError = "true"
    /\ upstreamCalls = 0

\* C8: when the model returns text t the result is the success result whose
\* text is exactly t, with no isError, whatever t is.
C8_SuccessCarriesRawText ==
    (Done /\ upstream.outcome = "returned") =>
        /\ response.by = "handler"
        /\ response.text = upstream.text
        /\ response.isError = "absent"
        /\ upstreamCalls = 1

C8_Witness ==
    /\ Done /\ upstream.outcome = "returned"
    /\ upstream.text = <<>>
    /\ response.text = <<>> /\ response.isError = "absent"

----------------------------------------------------------------------------
(* Properties of the catalog refresh *)

Returned == fetchPc \in {"returned", "assigned"}

\* C9: if any page request of the refresh failed, at whatever page, the
\* refresh returns the 23 hardcoded fallback crops in their order and never
\* the identifiers gathered so far.
C9_FallbackOnAnyFailure ==
    (\E i \in 1..Len(served) : served[i].kind # "ok") =>
        /\ Returned
        /\ fetchedCrops = FALLBACK_CROPS
        /\ Len(fetchedCrops) = 23
        /\ fetchedCrops[1] = <<"m","a","i","z","e">>
        /\ fetchedCrops[23] = <<"c","o","t","t","o","n">>
        /\ (fetchPc = "assigned") => (SUPPORTED_CROPS = FALLBACK_CROPS)

C9_Witness ==
    /\ fetchPc = "returned"
    /\ Len(served) = 3
    /\ served[1].body = "full" /\ served[2].body = "mixed"
    /\ served[3].kind = "json_throws"
    /\ Len(crops) = 55
    /\ fetchedCrops = FALLBACK_CROPS

\* The identifier of a record name, character by character: a letter in lower
\* case, the first character of a whitespace run as one underscore, nothing
\* for the rest of the run and for parentheses.
UpperLetters == <<"B", "C", "D", "F", "M", "R">>
LowerLetters == <<"b", "c", "d", "f", "m", "r">>

NormalizedChar(name, i) ==
    LET c == name[i] IN
    IF c \in {" ", "\t", "\n"}
    THEN IF i > 1 /\ name[i - 1] \in {" ", "\t", "\n"} THEN <<>> ELSE <<"_">>
    ELSE IF c \in {"(", ")"} THEN <<>>
    ELSE IF \E k \in 1..Len(UpperLetters) : UpperLetters[k] = c
         THEN <<LowerLetters[CHOOSE k \in 1..Len(UpperLetters) : UpperLetters[k] = c]>>
         ELSE <<c>>

NormalizedId(name) == Flatten([i \in 1..Len(name) |-> NormalizedChar(name, i)])

\* every response so far succeeded and reported page i of n for the i-th request
AccurateRun(n) ==
    /\ Len(served) >= 1
    /\ \A i \in 1..Len(served) :
        /\ served[i].kind = "ok"
        /\ served[i].pagination.present
        /\ served[i].pagination.page = i
        /\ served[i].pagination.totalPages = n

\* C10: when every page request succeeds and the API reports page i of n,
\* the refresh requests pages 1..n once each in increasing order and returns
\* the normalized identifiers of all records in page order, then record order.
C10_AllPagesInOrder ==
    \A n \in 1..MaxPages :
        AccurateRun(n) =>
            /\ requested = [i \in 1..Len(served) |-> i]
            /\ Len(served) <= n
            /\ Returned =>
                 /\ requested = [i \in 1..n |-> i]
                 /\ fetchedCrops =
                      Flatten([i \in 1..n |-> [k \in 1..Len(PageData(served[i].body)) |->
                                                 NormalizedId(PageData(served[i].body)[k])]])

C10_Witness ==
    /\ Returned
    /\ AccurateRun(3)
    /\ served[1].body = "full" /\ served[2].body = "full" /\ served[3].body = "short"
    /\ Len(fetchedCrops) = 110
    /\ fetchedCrops[110] = <<"c","_","1","0">>

----------------------------------------------------------------------------
(* Order of the steps of one request *)

\* C14: in every request the model is called at most once, and only with a
\* client configured, a well-formed image and a size within the limit; while
\* the call is pending nothing has been answered, and after an upstream
\* failure the request has ended with an isError result and that one call.
C14_UpstreamAtMostOnce ==
    /\ upstreamCalls \in {0, 1}
    /\ (upstreamCalls = 1) =>
          /\ reqPc \in {"awaiting", "done"}
          /\ genAI
          /\ req.hasImage
          /\ MatchesDataUri(req.image)
          /\ StrLen(Payload(req.image)) * 3 <= 4 * (5 * 1024 * 1024)
    /\ (reqPc = "awaiting") =>
          (upstreamCalls = 1 /\ upstream = NoUpstream /\ response = NoResponse)
    /\ (upstream.outcome = "threw") =>
          (Done /\ upstreamCalls = 1 /\ response.isError = "true")

C14_Witness ==
    /\ Done
    /\ upstream.outcome = "threw"
    /\ upstream.message = <<"A","P","I"," ","k","e","y">>
    /\ upstreamCalls = 1
    /\ response = ConfigurationError

----------------------------------------------------------------------------
(* Termination of the catalog refresh *)

\* C16: whatever the catalog API answers, the page loop eventually stops and
\* the refresh returns a list.
C16_RefreshTerminates == <>(fetchPc # "running")

----------------------------------------------------------------------------
(* The crop list seen by requests while the startup fetch runs *)

\* what a refresh that has returned must have returned: the fallback after a
\* failed page, else every record of every page it was served
WholeResult ==
    IF \E i \in 1..Len(served) : served[i].kind # "ok"
    THEN FALLBACK_CROPS
    ELSE Flatten([i \in 1..Len(served) |->
                    [k \in 1..Len(PageData(served[i].body)) |->
                        NormalizedId(PageData(served[i].body)[k])]])

\* C11: however the startup fetch and the requests interleave, the shared
\* list is the fallback until the fetch has returned and been assigned, and
\* from then on the whole list that fetch returned; the list a request reads
\* is one of these two, never the rows gathered so far.
C11_SnapshotWholeOrFallback ==
    /\ SUPPORTED_CROPS = IF fetchPc = "assigned" THEN fetchedCrops ELSE FALLBACK_CROPS
    /\ Returned => fetchedCrops = WholeResult
    /\ (reqPc # "idle") =>
          \/ req.cropEnum = FALLBACK_CROPS
          \/ fetchPc = "assigned" /\ req.cropEnum = fetchedCrops

C11_Witness ==
    /\ fetchPc = "running"
    /\ Len(crops) = 15
    /\ reqPc = "awaiting"
    /\ req.crop = RICE
    /\ req.cropEnum = FALLBACK_CROPS

----------------------------------------------------------------------------
(* Sections and rules of the prompt *)

TreatmentMarker == Lit(<<"(pill)", "**TREATMENT", "RECOMMENDATIONS:**">>)
DisclaimerMarker == Lit(<<"(warning)", "**IMPORTANT", "NOTES:**">>)

TreatmentVocabulary ==
    {"treatment", "treatment]", "[Treatment", "**Treatment", "**TREATMENT",
     "organic", "*Organic", "chemical", "*Chemical", "*Preventive",
     "dosage", "Dosage:"}

HasTreatmentVocabulary(line) ==
    \E i \in 1..Len(line.words) : line.words[i] \in TreatmentVocabulary

\* C13 as stated: in diagnosis_only no line of the prompt, formatting rules
\* included, has a word of the treatment vocabulary.
C13_NoTreatmentVocabulary ==
    (prompt # NoPrompt /\ ADVISORY_MODE = "diagnosis_only") =>
        \A i \in 1..Len(prompt) : ~HasTreatmentVocabulary(prompt[i])

\* C13: in diagnosis_only, for every crop and output format, the only line of
\* the prompt with a word of the treatment vocabulary is the formatting rule
\* that forbids treatment recommendations, and that rule occurs once.
C13_OnlyTheForbiddingRule ==
    (prompt # NoPrompt /\ ADVISORY_MODE = "diagnosis_only") =>
        /\ \A i \in 1..Len(prompt) :
              HasTreatmentVocabulary(prompt[i]) => prompt[i] = ForbidRule
        /\ Cardinality({i \in 1..Len(prompt) : prompt[i] = ForbidRule}) = 1

C13_Witness ==
    /\ reqPc = "awaiting"
    /\ ADVISORY_MODE = "diagnosis_only"
    /\ OUTPUT_FORMAT = "text"
    /\ req.crop = DURIAN
    /\ HasTreatmentVocabulary(prompt[Len(prompt) - 1])

\* C15: for every value of ADVISORY_MODE the mode rule agrees with the
\* sections: the rule forbids treatment exactly when the treatment section is
\* left out and asks for treatment guidance exactly when it is included.
C15_ModeRuleMatchesSections ==
    (prompt # NoPrompt) =>
        /\ (ForbidRule \in Range(prompt)) <=> (TreatmentMarker \notin Range(prompt))
        /\ (AskStructured \in Range(prompt) \/ AskText \in Range(prompt))
              <=> (TreatmentMarker \in Range(prompt))

====
